---- MODULE Spec2Model ----
(***************************************************************************)
(* A model of jupyter_book/toc.py: the global table of contents of a book. *)
(*                                                                         *)
(*   _no_suffix, find_name            path normalisation and tree lookup   *)
(*   update_indexname, add_toctree    the two Sphinx hooks                 *)
(*   _filename_to_title, build_toc    the generator of a draft _toc.yml    *)
(*                                                                         *)
(* A Python str is a sequence of atoms.  An atom is one character, or a    *)
(* run of letters that the code never looks inside ("md", "ipynb").  No    *)
(* atom contains '.' or '/', so the places where pathlib cuts a string are *)
(* the places where the model cuts it.                                     *)
(*                                                                         *)
(* A Python value whose type the code tests or that may be None is tagged: *)
(* [str |-> s], [list |-> l], [none |-> TRUE].  A dict is a function from  *)
(* its keys; dict.get is Get.  A raised exception is [raise |-> name].     *)
(***************************************************************************)
EXTENDS Integers, Sequences, FiniteSets, TLC

VARIABLES
    toc_file,   \* what yaml.safe_load gives for the file at globaltoc_path
    config,     \* app.config: globaltoc_path, globaltoc, master_doc
    phase,      \* where the build is: "start", "loaded", "failed", "off"
    hook,       \* the last add_toctree call: its document, source and outcome
    norm,       \* _no_suffix applied once and twice to one path
    title,      \* one call of _filename_to_title
    scan        \* one call of build_toc on one content folder

vars == <<toc_file, config, phase, hook, norm, title, scan>>

Idle == [step |-> "idle"]

-----------------------------------------------------------------------------
(* Bounds *)

MaxPathLen == 5
MaxNameLen == 4
MaxNodes == 3
MaxFiles == 2

-----------------------------------------------------------------------------
(* Python values *)

Str(s) == [str |-> s]
List(l) == [list |-> l]
None == [none |-> TRUE]
Raise(e) == [raise |-> e]

IsStr(v) == "str" \in DOMAIN v
IsRaise(v) == "raise" \in DOMAIN v

Get(d, k) == IF k \in DOMAIN d THEN d[k] ELSE None

GetOr(d, k, default) == IF k \in DOMAIN d THEN d[k] ELSE default

\* The truth value Python gives a tagged value.
Truthy(v) ==
    IF "str" \in DOMAIN v THEN v.str # <<>>
    ELSE IF "list" \in DOMAIN v THEN v.list # <<>>
    ELSE FALSE

Range(s) == {s[i] : i \in 1..Len(s)}

\* The element of a one-element set.  { F(x) : x \in {e} } evaluates e once
\* and names its value x, as an assignment to a local does.
Only(S) == CHOOSE x \in S : TRUE

\* All sequences over S of length at most n.
SeqsUpTo(S, n) == UNION {[1..k -> S] : k \in 0..n}

RECURSIVE Join(_, _)
\* sep.join(parts)
Join(sep, parts) ==
    IF parts = <<>> THEN <<>>
    ELSE IF Len(parts) = 1 THEN parts[1]
    ELSE parts[1] \o sep \o Join(sep, Tail(parts))

RECURSIVE Split(_, _)
\* s.split(sep) for a one-atom separator: empty tokens are kept.
Split(s, sep) ==
    IF \A i \in 1..Len(s) : s[i] # sep THEN <<s>>
    ELSE LET i == CHOOSE j \in 1..Len(s) :
                      s[j] = sep /\ \A k \in 1..(j - 1) : s[k] # sep
         IN <<SubSeq(s, 1, i - 1)>> \o Split(SubSeq(s, i + 1, Len(s)), sep)

\* s.rfind(c): the last index of c, 0-based, or -1.
RFind(s, c) ==
    IF \A i \in 1..Len(s) : s[i] # c THEN -1
    ELSE (CHOOSE j \in 1..Len(s) :
              s[j] = c /\ \A k \in (j + 1)..Len(s) : s[k] # c) - 1

SelectParts(parts) == SelectSeq(parts, LAMBDA x : x # <<>> /\ x # <<".">>)

-----------------------------------------------------------------------------
(* pathlib.PurePosixPath *)

\* The number of leading '/' of s.
LeadingSlashes(s) ==
    IF s = <<>> \/ s[1] # "/" THEN 0
    ELSE IF \A i \in 1..Len(s) : s[i] = "/" THEN Len(s)
    ELSE (CHOOSE j \in 1..Len(s) :
              s[j] # "/" /\ \A k \in 1..(j - 1) : s[k] = "/") - 1

\* Path(s): the root ('', '/' or '//') and the components, '' and '.' dropped.
Path(s) ==
    LET n == LeadingSlashes(s)
        rel == SubSeq(s, n + 1, Len(s))
    IN [root |-> IF n = 0 THEN <<>>
                 ELSE IF n = 2 THEN <<"/", "/">> ELSE <<"/">>,
        parts |-> SelectParts(Split(rel, "/"))]

\* str(path)
PathStr(p) ==
    IF p.root = <<>> /\ p.parts = <<>> THEN <<".">>
    ELSE p.root \o Join(<<"/">>, p.parts)

\* path.name
PathName(p) == IF p.parts = <<>> THEN <<>> ELSE p.parts[Len(p.parts)]

\* path.suffix, of a name: from the last dot, unless that dot is the first
\* or the last character of the name.
Suffix(name) ==
    LET i == RFind(name, ".")
    IN IF 0 < i /\ i < Len(name) - 1
       THEN SubSeq(name, i + 1, Len(name))
       ELSE <<>>

\* path.with_suffix(''): ValueError when the path has an empty name.
WithSuffixEmpty(p) ==
    LET name == PathName(p)
        stem == SubSeq(name, 1, Len(name) - Len(Suffix(name)))
    IN IF name = <<>> THEN Raise("ValueError")
       ELSE [root |-> p.root,
             parts |-> SubSeq(p.parts, 1, Len(p.parts) - 1) \o <<stem>>]

\* path.parent
PathParent(p) ==
    IF p.parts = <<>> THEN p
    ELSE [root |-> p.root, parts |-> SubSeq(p.parts, 1, Len(p.parts) - 1)]

\* _no_suffix(path): a str loses the last suffix of its last component;
\* anything else is returned as it is.
_no_suffix(v) ==
    IF IsStr(v)
    THEN LET q == WithSuffixEmpty(Path(v.str))
         IN IF IsRaise(q) THEN q ELSE Str(PathStr(q))
    ELSE v

-----------------------------------------------------------------------------
(* _no_suffix on its own *)

PathAtoms == {"a", ".", "/"}

PathStrings == SeqsUpTo(PathAtoms, MaxPathLen)

NormInit ==
    /\ norm \in {[step |-> "in", path |-> s] : s \in PathStrings}
    /\ toc_file = Idle /\ config = Idle /\ phase = "off" /\ hook = Idle
    /\ title = Idle /\ scan = Idle

\* normalize(p)
NormOnce ==
    /\ norm.step = "in"
    /\ norm' = [step |-> "once", path |-> norm.path,
                once |-> _no_suffix(Str(norm.path))]
    /\ UNCHANGED <<toc_file, config, phase, hook, title, scan>>

\* normalize(normalize(p)), when the first call returned.
NormTwice ==
    /\ norm.step = "once"
    /\ ~IsRaise(norm.once)
    /\ norm' = [step |-> "twice", path |-> norm.path, once |-> norm.once,
                twice |-> _no_suffix(norm.once)]
    /\ UNCHANGED <<toc_file, config, phase, hook, title, scan>>

NormNext == NormOnce \/ NormTwice

SpecNorm == NormInit /\ [][NormNext]_vars

\* C3: normalize(normalize(p)) = normalize(p) for every path string p, also
\* when the last component of p has more than one dot-separated suffix.
NormalizeIdempotent ==
    (norm.step = "twice" /\ ~IsRaise(norm.twice)) => norm.twice = norm.once

-----------------------------------------------------------------------------
(* _filename_to_title *)

Digits == {"0", "1", "2", "3", "4", "5", "6", "7", "8", "9"}

\* Whether int(tok) returns: an optional sign, then digits, single
\* underscores allowed between digits.
ParsesAsInt(tok) ==
    LET body == IF tok # <<>> /\ tok[1] \in {"+", "-"} THEN Tail(tok) ELSE tok
    IN /\ body # <<>>
       /\ \A i \in 1..Len(body) : body[i] \in Digits \cup {"_"}
       /\ body[1] \in Digits /\ body[Len(body)] \in Digits
       /\ \A i \in 1..(Len(body) - 1) : ~(body[i] = "_" /\ body[i + 1] = "_")

Upper(c) == CASE c = "a" -> "A" [] c = "b" -> "B" [] OTHER -> c

Lower(c) == CASE c = "A" -> "a" [] c = "B" -> "b" [] OTHER -> c

\* tok.capitalize()
Capitalize(tok) ==
    [i \in 1..Len(tok) |-> IF i = 1 THEN Upper(tok[i]) ELSE Lower(tok[i])]

\* A mutant of DropOrderPrefix: the numeric first token is dropped even
\* when it is the only one.
DropOrderPrefixAlways(filename_parts) ==
    IF ParsesAsInt(filename_parts[1]) THEN Tail(filename_parts)
    ELSE filename_parts

\* The try block: int(filename_parts[0]) raising leaves the parts alone.
DropOrderPrefix(filename_parts) ==
    IF ParsesAsInt(filename_parts[1])
    THEN IF Len(filename_parts) > 1 THEN Tail(filename_parts)
         ELSE filename_parts
    ELSE filename_parts

\* _filename_to_title(filename, split_char)
_filename_to_title(filename, split_char) ==
    LET q == WithSuffixEmpty(Path(filename))
    IN IF IsRaise(q) THEN q
       ELSE LET filename_parts == DropOrderPrefix(Split(PathName(q), split_char))
            IN Str(Join(<<" ">>,
                        [i \in 1..Len(filename_parts) |->
                            Capitalize(filename_parts[i])]))

NameAtoms == {"1", "a", "B", "_", "."}

\* Names a directory entry can have.
EntryNames ==
    {s \in SeqsUpTo(NameAtoms, MaxNameLen) : s \notin {<<>>, <<".">>, <<".", ".">>}}

SplitChars == {"_", "."}

TitleInit ==
    /\ title \in {[step |-> "in", filename |-> s, split_char |-> c] :
                      s \in EntryNames, c \in SplitChars}
    /\ toc_file = Idle /\ config = Idle /\ phase = "off" /\ hook = Idle
    /\ norm = Idle /\ scan = Idle

TitleCall ==
    /\ title.step = "in"
    /\ title' = [step |-> "out", filename |-> title.filename,
                 split_char |-> title.split_char,
                 out |-> _filename_to_title(title.filename, title.split_char)]
    /\ UNCHANGED <<toc_file, config, phase, hook, norm, scan>>

TitleNext == TitleCall

SpecTitle == TitleInit /\ [][TitleNext]_vars

\* The label the claim describes for a name: split, drop a numeric first
\* token when another token follows, capitalize, join with one space.
DescribedTitle(name, split_char) ==
    LET tokens == Split(name, split_char)
        kept == IF ParsesAsInt(tokens[1]) /\ Len(tokens) > 1
                THEN SubSeq(tokens, 2, Len(tokens)) ELSE tokens
    IN Str(Join(<<" ">>, [i \in 1..Len(kept) |-> Capitalize(kept[i])]))

\* The name without its last suffix, as pathlib's with_suffix('') cuts it.
Stem(name) == SubSeq(name, 1, Len(name) - Len(Suffix(name)))

\* C8 as stated: the title is the described label of the directory name
\* itself.
TitleOfWholeName ==
    title.step = "out" =>
        title.out = DescribedTitle(title.filename, title.split_char)

\* C8 amended: the title is the described label of the name with its last
\* suffix removed; a name that is one numeric token is its own label.
TitleOfStem ==
    title.step = "out" =>
        /\ title.out = DescribedTitle(Stem(title.filename), title.split_char)
        /\ (ParsesAsInt(title.filename) /\ title.split_char \notin Range(title.filename)
               /\ "." \notin Range(title.filename))
              => title.out = Str(title.filename)

\* The numeric prefix of a name was dropped and the next token capitalized.
TitleWitness ==
    /\ title.step = "out"
    /\ title.filename = <<"1", "_", "a">>
    /\ title.split_char = "_"
    /\ title.out = Str(<<"A">>)

-----------------------------------------------------------------------------
(* os.path.relpath *)

\* os.getcwd() during the build.
Cwd == <<<<"srv">>, <<"book">>>>

RECURSIVE NormComps(_, _, _)
\* The loop of posixpath.normpath over the components still to read.
NormComps(comps, new_comps, rooted) ==
    IF comps = <<>> THEN new_comps
    ELSE LET comp == Head(comps)
             n == Len(new_comps)
         IN IF comp = <<>> \/ comp = <<".">>
            THEN NormComps(Tail(comps), new_comps, rooted)
            ELSE IF \/ comp # <<".", ".">>
                    \/ (~rooted /\ n = 0)
                    \/ (n > 0 /\ new_comps[n] = <<".", ".">>)
            THEN NormComps(Tail(comps), Append(new_comps, comp), rooted)
            ELSE IF n > 0
            THEN NormComps(Tail(comps), SubSeq(new_comps, 1, n - 1), rooted)
            ELSE NormComps(Tail(comps), new_comps, rooted)

\* [x for x in abspath(s).split('/') if x]
AbsList(s) ==
    IF s # <<>> /\ s[1] = "/"
    THEN NormComps(Split(s, "/"), <<>>, TRUE)
    ELSE NormComps(Cwd \o Split(s, "/"), <<>>, TRUE)

RECURSIVE CommonPrefixLen(_, _)
CommonPrefixLen(a, b) ==
    IF a = <<>> \/ b = <<>> \/ Head(a) # Head(b) THEN 0
    ELSE 1 + CommonPrefixLen(Tail(a), Tail(b))

\* os.path.relpath(path, start): path is a tagged value, start a str.
RelPath(path, start) ==
    IF ~Truthy(path) THEN Raise("ValueError")
    ELSE LET start_list == AbsList(start)
             path_list == AbsList(path.str)
             i == CommonPrefixLen(start_list, path_list)
             rel_list == [k \in 1..(Len(start_list) - i) |-> <<".", ".">>]
                             \o SubSeq(path_list, i + 1, Len(path_list))
         IN IF rel_list = <<>> THEN Str(<<".">>)
            ELSE Str(Join(<<"/">>, rel_list))

-----------------------------------------------------------------------------
(* find_name *)

\* A mutant of FindInPages: a match in a later sibling's subtree replaces
\* an earlier one.
RECURSIVE FindLastInPages(_, _)
FindLastInPages(pages, name) ==
    IF pages = <<>> THEN None
    ELSE LET page == Head(pages)
             later == FindLastInPages(Tail(pages), name)
             below == FindLastInPages(GetOr(page, "sections", <<>>), name)
         IN IF later # None THEN later
            ELSE IF below # None THEN below
            ELSE IF _no_suffix(Get(page, "path")) = name THEN page
            ELSE None

\* A mutant of FindInPages: the sections of a page are not searched.
RECURSIVE FindAmongSiblings(_, _)
FindAmongSiblings(pages, name) ==
    IF pages = <<>> THEN None
    ELSE IF _no_suffix(Get(Head(pages), "path")) = name THEN Head(pages)
    ELSE FindAmongSiblings(Tail(pages), name)

RECURSIVE FindInPages(_, _)
\* The loop of find_name over a list of pages.  An exception of _no_suffix
\* leaves the loop.
FindInPages(pages, name) ==
    IF pages = <<>> THEN None
    ELSE LET page == Head(pages)
         IN Only({ IF IsRaise(key) THEN key
                   ELSE IF key = name THEN page
                   ELSE Only({ IF found # None THEN found
                               ELSE FindInPages(Tail(pages), name) :
                               found \in {FindInPages(GetOr(page, "sections", <<>>),
                                                      name)} }) :
                   key \in {_no_suffix(Get(page, "path"))} })

\* find_name(pages, name), pages a dict: it is searched as [pages].
find_name(pages, name) == FindInPages(<<pages>>, name)

-----------------------------------------------------------------------------
(* update_indexname *)

IsList(v) == "list" \in DOMAIN v

\* d with d[k] = v, as the assignment d[k] = v leaves the dict d.
SetItem(d, k, v) ==
    [x \in DOMAIN d \cup {k} |-> IF x = k THEN v ELSE d[x]]

\* A mutant of UpdateIndexnameRun: the sections record 0 declares are kept
\* and the following records are appended to them.
UpdateIndexnameAppends(cfg, toc) ==
    IF ~Truthy(cfg.globaltoc_path) THEN [config |-> cfg, result |-> None]
    ELSE IF "missing" \in DOMAIN toc
    THEN [config |-> cfg, result |-> Raise("FileNotFoundError")]
    ELSE IF ~IsList(toc)
    THEN [config |-> cfg, result |-> Raise("UnboundLocalError")]
    ELSE IF toc.list = <<>>
    THEN [config |-> cfg, result |-> Raise("IndexError")]
    ELSE LET toc_updated ==
                 IF Len(toc.list) > 1
                 THEN SetItem(toc.list[1], "sections",
                              GetOr(toc.list[1], "sections", <<>>)
                                  \o Tail(toc.list))
                 ELSE toc.list[1]
             cfg1 == [cfg EXCEPT !.globaltoc = toc_updated]
         IN IF "path" \notin DOMAIN toc_updated
            THEN [config |-> cfg1, result |-> Raise("KeyError")]
            ELSE [config |-> [cfg1 EXCEPT
                                 !.master_doc = _no_suffix(toc_updated.path)],
                  result |-> None]

\* update_indexname(app, config): the configuration it leaves and what it
\* returns or raises.  toc is what the manifest file holds.
UpdateIndexnameRun(cfg, toc) ==
    IF ~Truthy(cfg.globaltoc_path) THEN [config |-> cfg, result |-> None]
    ELSE IF "missing" \in DOMAIN toc
    THEN [config |-> cfg, result |-> Raise("FileNotFoundError")]
    ELSE IF ~IsList(toc)
    \* toc_updated is never bound
    THEN [config |-> cfg, result |-> Raise("UnboundLocalError")]
    ELSE IF toc.list = <<>>
    THEN [config |-> cfg, result |-> Raise("IndexError")]
    ELSE LET toc_updated ==
                 IF Len(toc.list) > 1
                 THEN SetItem(toc.list[1], "sections", Tail(toc.list))
                 ELSE toc.list[1]
             cfg1 == [cfg EXCEPT !.globaltoc = toc_updated]
         IN IF "path" \notin DOMAIN toc_updated
            THEN [config |-> cfg1, result |-> Raise("KeyError")]
            ELSE LET master == _no_suffix(toc_updated.path)
                 IN IF IsRaise(master)
                    THEN [config |-> cfg1, result |-> master]
                    ELSE [config |-> [cfg1 EXCEPT !.master_doc = master],
                          result |-> None]

-----------------------------------------------------------------------------
(* add_toctree *)

\* nbformat.writes and nbformat.reads: the text of a notebook stands for
\* its cells.
NbWrites(cells) == [nbjson |-> cells]
NbReads(text) == text.nbjson

\* nbf.v4.new_markdown_cell(text)
NewMarkdownCell(text) == [cell_type |-> "markdown", source |-> text]

RECURSIVE RenderSections(_, _)
\* The loop of lines 54 to 63 over the (path, name) pairs still to render:
\* the labels, or the exception of the first child that raises one.
RenderSections(page, sections) ==
    IF sections = <<>> THEN List(<<>>)
    ELSE LET path_sec == Head(sections)[1]
             name == Head(sections)[2]
             path_parent_folder == PathParent(Path(page.path.str))
         IN Only({ IF IsRaise(rel) THEN rel
                   ELSE LET this_section ==
                                IF Truthy(name)
                                THEN name.str \o <<" ", "<">> \o rel.str \o <<">">>
                                ELSE rel.str
                        IN Only({ IF IsRaise(rest) THEN rest
                                  ELSE List(<<this_section>> \o rest.list) :
                                  rest \in {RenderSections(page, Tail(sections))} }) :
                   rel \in {RelPath(path_sec, PathStr(path_parent_folder))} })

\* The options block: one ':option:' line per option, in order.
RenderOptions(page) ==
    LET given == GetOr(page, "options", List(<<>>))
        options == IF IsStr(given) THEN <<given.str>> ELSE given.list
    IN Join(<<"\n">>,
            [i \in 1..Len(options) |-> <<":">> \o options[i] \o <<":">>])

\* toctree_text.format(options=options, sections="\n".join(sections)); the
\* atom "fence" is the line of three backquotes.
ToctreeText(options, sections) ==
    <<"\n", "fence", "{toctree}", "\n", ":hidden:", "\n", ":titlesonly:", "\n">>
        \o options \o <<"\n", "\n">> \o Join(<<"\n">>, sections)
        \o <<"\n", "fence", "\n">>

\* Lines 88 to 99: the source after the directive went in, by suffix.
Inject(suff, source, toctree) ==
    IF suff = <<".", "md">> THEN Str(source.str \o toctree \o <<"\n">>)
    ELSE IF suff = <<".", "ipynb">>
    THEN NbWrites(Append(NbReads(source), NewMarkdownCell(toctree)))
    ELSE Raise("ValueError")

Returned(cfg, source) ==
    [config |-> cfg, source |-> source, result |-> None, sections |-> None]

Raised(cfg, source, e, sections) ==
    [config |-> cfg, source |-> source, result |-> e, sections |-> sections]

\* Lines 65 to 99, the labels being rendered.
AfterRender(cfg, path, source, page, rendered) ==
    LET toctree == ToctreeText(RenderOptions(page), rendered.list)
        suff == Suffix(PathName(Path(path)))
    IN Only({ IF IsRaise(after)
              THEN Raised(cfg, source, after, rendered)
              ELSE [config |-> cfg, source |-> after, result |-> None,
                    sections |-> rendered] :
              after \in {Inject(suff, source, toctree)} })

\* A mutant of AfterFindName: a page that is not in the tree is passed over
\* in silence.
AfterFindNameSilent(cfg, path, source, page) ==
    IF IsRaise(page) THEN Raised(cfg, source, page, None)
    ELSE IF page = None THEN Returned(cfg, source)
    ELSE LET kids == GetOr(page, "sections", <<>>)
             sections == [i \in 1..Len(kids) |->
                             <<Get(kids[i], "path"), Get(kids[i], "name")>>]
         IN IF Len(sections) = 0 THEN Returned(cfg, source)
            ELSE Only({ IF IsRaise(rendered)
                        THEN Raised(cfg, source, rendered, None)
                        ELSE AfterRender(cfg, path, source, page, rendered) :
                        rendered \in {RenderSections(page, sections)} })

\* A mutant of AfterFindName: a page without sections gets a directive too.
AfterFindNameAlwaysInjects(cfg, path, source, page) ==
    IF IsRaise(page) THEN Raised(cfg, source, page, None)
    ELSE IF page = None
    THEN Raised(cfg, source,
                [raise |-> "FileNotFoundError", names |-> path], None)
    ELSE LET kids == GetOr(page, "sections", <<>>)
             sections == [i \in 1..Len(kids) |->
                             <<Get(kids[i], "path"), Get(kids[i], "name")>>]
         IN Only({ IF IsRaise(rendered)
                   THEN Raised(cfg, source, rendered, None)
                   ELSE AfterRender(cfg, path, source, page, rendered) :
                   rendered \in {RenderSections(page, sections)} })

\* Lines 45 to 63, page being what find_name returned.
AfterFindName(cfg, path, source, page) ==
    IF IsRaise(page) THEN Raised(cfg, source, page, None)
    ELSE IF page = None
    THEN Raised(cfg, source,
                [raise |-> "FileNotFoundError", names |-> path], None)
    ELSE LET kids == GetOr(page, "sections", <<>>)
             sections == [i \in 1..Len(kids) |->
                             <<Get(kids[i], "path"), Get(kids[i], "name")>>]
         IN IF Len(sections) = 0 THEN Returned(cfg, source)
            ELSE Only({ IF IsRaise(rendered)
                        THEN Raised(cfg, source, rendered, None)
                        ELSE AfterRender(cfg, path, source, page, rendered) :
                        rendered \in {RenderSections(page, sections)} })

\* A mutant of AddToctreeRun: the labels are written into the sections of the
\* page itself, not into a list of their own (seen when the page is the root).
AddToctreeRunInPlace(cfg, path, source) ==
    IF ~Truthy(cfg.globaltoc_path) THEN Returned(cfg, source)
    ELSE Only({ Only({ IF page = cfg.globaltoc /\ r.sections # None
                       THEN [r EXCEPT !.config.globaltoc =
                                SetItem(page, "sections",
                                        [i \in 1..Len(r.sections.list) |->
                                            Str(r.sections.list[i])])]
                       ELSE r :
                       r \in {AfterFindName(cfg, path, source, page)} }) :
                page \in {find_name(cfg.globaltoc, _no_suffix(Str(path)))} })

\* add_toctree(app, docname, source), path being app.env.doc2path(docname):
\* the configuration and the source buffer it leaves, what it returns or
\* raises, and the labels it rendered.
AddToctreeRun(cfg, path, source) ==
    IF ~Truthy(cfg.globaltoc_path) THEN Returned(cfg, source)
    ELSE Only({ AfterFindName(cfg, path, source, page) :
                page \in {find_name(cfg.globaltoc, _no_suffix(Str(path)))} })

-----------------------------------------------------------------------------
(* One build: the manifest, the configuration hook, then the pages *)

index == <<"index">>
index_md == <<"index", ".", "md">>
index_rst == <<"index", ".", "rst">>
ch_intro == <<"ch", "/", "intro">>
ch_intro_ipynb == <<"ch", "/", "intro", ".", "ipynb">>
ch_page_ipynb == <<"ch", "/", "page", ".", "ipynb">>
other_md == <<"other", ".", "md">>

\* The records a manifest is made of, without the sections they get in it.
Entries ==
    { [path |-> Str(index)],
      [path |-> Str(index_md), name |-> Str(<<"Home">>),
       options |-> List(<<<<"numbered">>, <<"caption">>>>)],
      [path |-> Str(ch_intro), options |-> Str(<<"numbered">>),
       sections |-> <<>>],
      [path |-> Str(ch_page_ipynb), name |-> Str(<<"Page">>)],
      [header |-> Str(<<"Part">>)] }

\* The documents Sphinx reads, as doc2path names them.
DocPaths == {index_md, index_rst, ch_intro_ipynb, other_md}

\* The source Sphinx read for a document.
SourceOf(path) ==
    IF Suffix(PathName(Path(path))) = <<".", "ipynb">>
    THEN NbWrites(<<[cell_type |-> "code", source |-> <<"1+1">>]>>)
    ELSE Str(<<"# Title", "\n">>)

RECURSIVE Forests(_)
\* The lists of records with n records in all, sections included.
Forests(n) ==
    IF n = 0 THEN {<<>>}
    ELSE UNION {
           { <<IF kids = <<>> THEN e ELSE SetItem(e, "sections", kids)>> \o rest :
                 e \in Entries, kids \in Forests(k - 1), rest \in Forests(n - k) } :
           k \in 1..n }

\* What the manifest file may hold: a list of records, a single mapping,
\* or nothing at all (no such file).
Manifests ==
    {List(f) : f \in UNION {Forests(n) : n \in 0..MaxNodes}}
        \cup {[path |-> Str(index)], [missing |-> TRUE]}

Init ==
    /\ \/ /\ toc_file \in Manifests
          /\ config = [globaltoc_path |-> Str(<<"_toc.yml">>),
                       globaltoc |-> None, master_doc |-> Str(index)]
       \/ /\ toc_file = [missing |-> TRUE]
          /\ config = [globaltoc_path |-> None,
                       globaltoc |-> None, master_doc |-> Str(index)]
    /\ phase = "config"
    /\ hook = Idle
    /\ norm = Idle /\ title = Idle /\ scan = Idle

\* Sphinx emits config-inited once; an exception ends the build.
UpdateIndexname ==
    /\ phase = "config"
    /\ \E r \in {UpdateIndexnameRun(config, toc_file)} :
          /\ config' = r.config
          /\ hook' = [fn |-> "update_indexname", result |-> r.result]
          /\ phase' = IF IsRaise(r.result) THEN "aborted" ELSE "reading"
    /\ UNCHANGED <<toc_file, norm, title, scan>>

\* Sphinx emits source-read for a document it reads.
AddToctree ==
    /\ phase = "reading"
    /\ \E path \in DocPaths : \E source \in {SourceOf(path)} :
       \E r \in {AddToctreeRun(config, path, source)} :
          /\ config' = r.config
          /\ hook' = [fn |-> "add_toctree", path |-> path,
                      before |-> source, after |-> r.source,
                      result |-> r.result, sections |-> r.sections]
    /\ UNCHANGED <<toc_file, phase, norm, title, scan>>

Next == UpdateIndexname \/ AddToctree

Spec == Init /\ [][Next]_vars

Configured == Truthy(config.globaltoc_path)

RECURSIVE Preorder(_)
\* The nodes under a list of pages: each page before its sections, the
\* sections before the next page.
Preorder(pages) ==
    IF pages = <<>> THEN <<>>
    ELSE <<Head(pages)>> \o Preorder(GetOr(Head(pages), "sections", <<>>))
             \o Preorder(Tail(pages))

\* The nodes of the loaded tree, the root first.
TreeNodes == Preorder(<<config.globaltoc>>)

TreeLoaded == Configured /\ config.globaltoc # None

-----------------------------------------------------------------------------
(* Properties of one build *)

IsAddToctree == "fn" \in DOMAIN hook /\ hook.fn = "add_toctree"

HasPath(node) == "path" \in DOMAIN node

\* The key a node is compared by: its path, normalised.
NodeKey(node) == _no_suffix(Get(node, "path"))

\* The first of nodes whose key is key, or None.
FirstMatch(nodes, key) ==
    IF \E i \in 1..Len(nodes) : NodeKey(nodes[i]) = key
    THEN nodes[CHOOSE i \in 1..Len(nodes) :
                   /\ NodeKey(nodes[i]) = key
                   /\ \A j \in 1..(i - 1) : NodeKey(nodes[j]) # key]
    ELSE None

\* No two nodes of the tree declare the same path.
UniquePaths ==
    \A i, j \in 1..Len(TreeNodes) :
        (i # j /\ HasPath(TreeNodes[i]) /\ HasPath(TreeNodes[j]))
            => TreeNodes[i].path # TreeNodes[j].path

\* No two nodes of the tree declare paths with the same normalisation.
UniqueKeys ==
    \A i, j \in 1..Len(TreeNodes) :
        (i # j /\ HasPath(TreeNodes[i]) /\ HasPath(TreeNodes[j]))
            => NodeKey(TreeNodes[i]) # NodeKey(TreeNodes[j])

LookupKeys ==
    {_no_suffix(Str(p)) : p \in DocPaths}
        \cup {NodeKey(e) : e \in {x \in Entries : HasPath(x)}}

LoadInstallsRecords ==
    (Configured /\ phase # "config" /\ IsList(toc_file) /\ toc_file.list # <<>>)
        => LET records == toc_file.list
               root == config.globaltoc
           IN /\ root # None
              /\ DOMAIN root \ {"sections"} = DOMAIN records[1] \ {"sections"}
              /\ \A k \in DOMAIN records[1] \ {"sections"} : root[k] = records[1][k]
              /\ Len(records) > 1 =>
                    "sections" \in DOMAIN root /\ root.sections = Tail(records)
              /\ Len(records) = 1 => root = records[1]

\* Record 0 declared sections and another record followed it.
LoadWitness ==
    /\ phase = "reading" /\ Configured /\ IsList(toc_file)
    /\ Len(toc_file.list) = 2
    /\ GetOr(toc_file.list[1], "sections", <<>>) # <<>>

\* The page of the last add_toctree call, by the first match in pre-order.
HookPage == FirstMatch(TreeNodes, _no_suffix(Str(hook.path)))

\* The label of a child of page: its path from the folder of the page, after
\* its name when it declares one.
Label(page, child) ==
    LET folder == PathStr(PathParent(Path(page.path.str)))
        rel == RelPath(Get(child, "path"), folder)
    IN IF "name" \in DOMAIN child
       THEN child.name.str \o <<" ", "<">> \o rel.str \o <<">">>
       ELSE rel.str

\* C5: for a found node with sections, the directive has one entry per
\* child, in order: the child's path relative to the parent, as
\* 'name <path>' when the child declares a name.
DirectiveListsChildren ==
    (IsAddToctree /\ Configured /\ HookPage # None
        /\ GetOr(HookPage, "sections", <<>>) # <<>>)
        => LET kids == HookPage.sections
           IN /\ hook.sections # None
              /\ Len(hook.sections.list) = Len(kids)
              /\ \A i \in 1..Len(kids) :
                    /\ HasPath(kids[i])
                    /\ hook.sections.list[i] = Label(HookPage, kids[i])

\* C6: a found page without sections leaves add_toctree returning and its
\* source as it was, whatever its suffix.
NoSectionsNoChange ==
    (IsAddToctree /\ Configured /\ HookPage # None
        /\ GetOr(HookPage, "sections", <<>>) = <<>>)
        => /\ hook.result = None
           /\ hook.after = hook.before

\* add_toctree returned for index.rst, found without sections.
NoSectionsWitness ==
    /\ IsAddToctree /\ Configured
    /\ hook.path = index_rst
    /\ HookPage # None /\ GetOr(HookPage, "sections", <<>>) = <<>>
    /\ hook.result = None

\* C7: a document no node matches ends add_toctree in an error naming its
\* path, the source as it was.
NotInTocIsFatal ==
    (IsAddToctree /\ Configured /\ HookPage = None)
        => /\ hook.result = [raise |-> "FileNotFoundError", names |-> hook.path]
           /\ hook.after = hook.before

\* add_toctree raised for other.md, which the tree does not hold.
NotInTocWitness ==
    /\ IsAddToctree /\ Configured
    /\ hook.path = other_md
    /\ HookPage = None
    /\ IsRaise(hook.result)

\* C10: once the tree is loaded, no add_toctree call changes the
\* configuration that holds it.
TocReadOnly == [][phase = "reading" => config' = config]_vars

\* add_toctree injected a directive into the root's source.
TocReadOnlyWitness ==
    /\ IsAddToctree /\ Configured
    /\ hook.result = None
    /\ hook.after # hook.before
    /\ HookPage = config.globaltoc

-----------------------------------------------------------------------------
(* build_toc *)

SUPPORTED_FILE_SUFFIXES ==
    << <<".", "ipynb">>, <<".", "md">>, <<".", "markdown">>, <<".", "Rmd">>,
       <<".", "py">>, <<"#BREAK#">> >>

LICENSE_md == <<"LICENSE", ".", "md">>

\* The atoms of the names below, in the order of their first characters.
AtomOrder ==
    <<"#BREAK#", ".", "/", "1", "LICENSE", "_", "a", "b", "c", "ipynb",
      "ipynb_checkpoints", "md", "n", "py", "s", "txt">>

AtomRank(c) == CHOOSE i \in 1..Len(AtomOrder) : AtomOrder[i] = c

RECURSIVE StrLess(_, _)
\* a < b for two str.
StrLess(a, b) ==
    IF b = <<>> THEN FALSE
    ELSE IF a = <<>> THEN TRUE
    ELSE IF Head(a) = Head(b) THEN StrLess(Tail(a), Tail(b))
    ELSE AtomRank(Head(a)) < AtomRank(Head(b))

RECURSIVE PartsLess(_, _)
\* a < b for two paths, compared part by part as pathlib does.
PartsLess(a, b) ==
    IF b = <<>> THEN FALSE
    ELSE IF a = <<>> THEN TRUE
    ELSE IF Head(a) = Head(b) THEN PartsLess(Tail(a), Tail(b))
    ELSE StrLess(Head(a), Head(b))

\* name.endswith(suffix): what glob('*' + suffix) matches.
EndsWith(name, suffix) ==
    /\ Len(name) >= Len(suffix)
    /\ SubSeq(name, Len(name) - Len(suffix) + 1, Len(name)) = suffix

\* 'ipynb_checkpoints' in str(ipath), ipath given by its parts.
InCheckpoints(parts) ==
    \E i \in 1..Len(parts) : "ipynb_checkpoints" \in Range(parts[i])

\* What directory.glob or directory.rglob yields for one pattern: the
\* matches among the directory's own entries in the order it lists them,
\* then, for rglob, those of the directories below it.
Glob(listing, suffix, rglob) ==
    SelectSeq(listing.direct, LAMBDA f : EndsWith(f[Len(f)], suffix))
        \o IF rglob
           THEN SelectSeq(listing.below, LAMBDA f : EndsWith(f[Len(f)], suffix))
           ELSE <<>>

RECURSIVE SupportedFrom(_, _, _, _)
\* The comprehension of _list_supported_files over the suffixes still to try.
SupportedFrom(suffixes, listing, exclude, rglob) ==
    IF suffixes = <<>> THEN <<>>
    ELSE SelectSeq(Glob(listing, Head(suffixes), rglob),
                   LAMBDA f : f[Len(f)] \notin exclude /\ ~InCheckpoints(f))
             \o SupportedFrom(Tail(suffixes), listing, exclude, rglob)

\* _list_supported_files(directory, rglob=rglob), listing being what the
\* directory holds.
_list_supported_files(listing, rglob) ==
    SupportedFrom(SUPPORTED_FILE_SUFFIXES, listing, {LICENSE_md}, rglob)

\* str(Path(*ipath.with_suffix('').parts[1:])), ipath given by its parts.
PagePath(ipath) ==
    LET q == WithSuffixEmpty([root |-> <<>>, parts |-> ipath])
    IN PathStr([root |-> <<>>, parts |-> Tail(q.parts)])

\* The line yaml.safe_dump writes for one element of toc_pages.
YamlLine(page) ==
    IF IsStr(page) THEN <<"- '">> \o page.str \o <<"'", "\n">>
    ELSE LET k == CHOOSE x \in DOMAIN page : TRUE
         IN <<"- ", k, ": ">> \o page[k].str \o <<"\n">>

RECURSIVE YamlDump(_)
YamlDump(pages) ==
    IF pages = <<>> THEN <<>>
    ELSE YamlLine(Head(pages)) \o YamlDump(Tail(pages))

RECURSIVE WithoutMarkers(_)
\* The text of line 230: the dump with every "- '## REPLACE ##'" taken out.
WithoutMarkers(text) ==
    IF text = <<>> THEN <<>>
    ELSE IF Len(text) >= 3 /\ SubSeq(text, 1, 3) = <<"- '", "## REPLACE ##", "'">>
    THEN WithoutMarkers(SubSeq(text, 4, Len(text)))
    ELSE <<Head(text)>> \o WithoutMarkers(Tail(text))

RECURSIVE SubdirPages(_, _, _)
\* The loop of lines 214 to 227 over the subdirectories still to visit.
SubdirPages(subdirectories, fs, split_char) ==
    IF subdirectories = <<>> THEN <<>>
    ELSE LET subdir == Head(subdirectories)
             name == subdir[Len(subdir)]
             held == fs.sub[name]
         IN Only({ IF Len(ipaths) = 0 THEN rest
                   ELSE <<Str(<<"## REPLACE ##">>),
                          [header |-> _filename_to_title(name, split_char)]>>
                            \o [i \in 1..Len(ipaths) |->
                                   [url |-> Str(PagePath(ipaths[i]))]]
                            \o rest :
                   ipaths \in
                     { _list_supported_files(listing, TRUE) :
                       listing \in
                         { [direct |-> [i \in 1..Len(held.direct) |->
                                           subdir \o <<held.direct[i]>>],
                            below |-> [i \in 1..Len(held.below) |->
                                          subdir \o held.below[i]]] } },
                   rest \in {SubdirPages(Tail(subdirectories), fs,
                                         split_char)} })

\* build_toc(content_folder, filename_split_char): the toc_pages it builds
\* and the text it returns, or the exception it raises.  content_folder is
\* given by its parts, fs by what the folder holds.  The IPython.embed() of
\* line 228 stops for a console and is taken to return.
BuildTocRun(content_folder, fs, split_char) ==
    IF ~fs.is_dir THEN [result |-> Raise("ValueError")]
    ELSE LET subdirectories ==
                 SortSeq(Only({ [i \in 1..Len(names) |-> content_folder \o <<names[i]>>] :
                                names \in { CHOOSE q \in [1..Cardinality(DOMAIN fs.sub)
                                                             -> DOMAIN fs.sub] :
                                                Range(q) = DOMAIN fs.sub } }),
                         PartsLess)
             kept == SelectSeq(subdirectories,
                               LAMBDA d : ~(<<".", "ipynb_checkpoints">> = d[Len(d)]))
         IN Only({ Only({ [result |-> Str(Join(<<"\n">>,
                                               [i \in 1..Len(text) |-> <<text[i]>>])),
                           toc_pages |-> toc_pages] :
                          text \in {WithoutMarkers(YamlDump(toc_pages))} }) :
                   toc_pages \in
                     { [i \in 1..Len(paths) |-> [path |-> Str(PagePath(paths[i]))]]
                           \o SubdirPages(kept, fs, split_char) :
                       paths \in
                         { _list_supported_files(listing, FALSE) :
                           listing \in
                             { [direct |-> [i \in 1..Len(fs.top) |->
                                               content_folder \o <<fs.top[i]>>],
                                below |-> <<>>] } } } })

\* The sequences without repetition over S of length at most n: the orders
\* in which a directory may list the entries it holds.
Listings(S, n) ==
    {q \in SeqsUpTo(S, n) : \A i, j \in 1..Len(q) : q[i] = q[j] => i = j}

TopNames ==
    {<<"a", ".", "md">>, <<"b", ".", "ipynb">>, LICENSE_md, <<"n", ".", "txt">>}

SubNames == {<<"c", ".", "md">>, <<"a", ".", "py">>}

BelowNames ==
    {<<<<"s">>, <<"c", ".", "md">>>>,
     <<<<".", "ipynb_checkpoints">>, <<"a", ".", "ipynb">>>>}

DirNames == {<<"1", "_", "a">>, <<"b">>, <<".", "ipynb_checkpoints">>}

DirContents ==
    {[direct |-> d, below |-> b] :
        d \in Listings(SubNames, MaxFiles), b \in Listings(BelowNames, 1)}

ContentFolders == {<<<<"content">>>>}

\* How many subdirectories a content folder holds at most.
MaxDirs == 2

ScanInit ==
    /\ \E folder \in ContentFolders :
          \/ scan = [step |-> "in", content_folder |-> folder, split_char |-> "_",
                     fs |-> [is_dir |-> FALSE]]
          \/ \E top \in Listings(TopNames, MaxFiles) :
             \E names \in {D \in SUBSET DirNames : Cardinality(D) <= MaxDirs} :
             \E sub \in [names -> DirContents] :
                scan = [step |-> "in", content_folder |-> folder,
                        split_char |-> "_",
                        fs |-> [is_dir |-> TRUE, top |-> top, sub |-> sub]]
    /\ toc_file = Idle /\ config = Idle /\ phase = "off" /\ hook = Idle
    /\ norm = Idle /\ title = Idle

BuildToc ==
    /\ scan.step = "in"
    /\ \E r \in {BuildTocRun(scan.content_folder, scan.fs, scan.split_char)} :
          scan' = [step |-> "out", content_folder |-> scan.content_folder,
                   split_char |-> scan.split_char, fs |-> scan.fs, run |-> r]
    /\ UNCHANGED <<toc_file, config, phase, hook, norm, title>>

ScanNext == BuildToc

SpecScan == ScanInit /\ [][ScanNext]_vars

\* The files build_toc keeps of those a directory holds, by name: a
\* supported suffix, not LICENSE.md, not under a checkpoint directory.
Qualifies(f) ==
    /\ \E i \in 1..Len(SUPPORTED_FILE_SUFFIXES) :
          EndsWith(f[Len(f)], SUPPORTED_FILE_SUFFIXES[i])
    /\ f[Len(f)] # LICENSE_md
    /\ ~InCheckpoints(f)

\* The elements of a set of paths in sorted order.
Sorted(S) ==
    SortSeq(CHOOSE q \in [1..Cardinality(S) -> S] : Range(q) = S, PartsLess)

\* The files a subdirectory holds, itself and below, as paths from the
\* content folder.
SubdirFiles(name) ==
    {<<name, f>> : f \in Range(scan.fs.sub[name].direct)}
        \cup {<<name>> \o f : f \in Range(scan.fs.sub[name].below)}

HeaderMark == <<<<"#header">>>>

RECURSIVE ExpectedGroups(_)
ExpectedGroups(dirs) ==
    IF dirs = <<>> THEN <<>>
    ELSE LET name == Head(dirs)[1]
             files == Sorted({f \in SubdirFiles(name) : Qualifies(f)})
         IN (IF files = <<>> THEN <<>>
             ELSE <<HeaderMark>> \o files)
                \o ExpectedGroups(Tail(dirs))

\* The order the claim describes: the top-level files sorted by name, then
\* for each subdirectory with files, in sorted order, its header and its
\* files sorted.
ExpectedOrder ==
    Sorted({<<f>> : f \in {g \in Range(scan.fs.top) : Qualifies(<<g>>)}})
        \o ExpectedGroups(Sorted({<<d>> : d \in
               {x \in DOMAIN scan.fs.sub : x # <<".", "ipynb_checkpoints">>}}))

\* What a record of toc_pages stands for: the file it names, without its
\* suffix, or a header.
RecordOf(page) ==
    IF IsStr(page) THEN <<"#marker">>
    ELSE IF "header" \in DOMAIN page THEN <<"#header">>
    ELSE IF "path" \in DOMAIN page THEN page.path.str
    ELSE page.url.str

\* The path the record of a file holds.
Stripped(f) ==
    IF f = HeaderMark THEN <<"#header">>
    ELSE PagePath(scan.content_folder \o f)

\* C9: build_toc emits the top-level files sorted by name, then one group
\* per subdirectory with files in sorted order of directory name, each a
\* header followed by its files sorted; neither the suffixes nor the order
\* of the directory listing matter.
TocPagesSorted ==
    (scan.step = "out" /\ scan.fs.is_dir)
        => LET records == SelectSeq(scan.run.toc_pages,
                                    LAMBDA p : RecordOf(p) # <<"#marker">>)
           IN /\ Len(records) = Len(ExpectedOrder)
              /\ \A i \in 1..Len(records) :
                    RecordOf(records[i]) = Stripped(ExpectedOrder[i])

====
